---- MODULE Spec2Model ----
(***************************************************************************)
(* Model of the document-processing pipeline:                              *)
(*   src/03_01/lambda/textract-lambda.py   (polling + block resolution)    *)
(*   src/03_02/lambda/comprehend-lambda.py (enrichment + PII flagging)     *)
(*                                                                         *)
(* Text is a sequence of characters, each its code point; offsets are      *)
(* 0-based as in Python, so character k of a text t is t[k + 1].           *)
(***************************************************************************)
EXTENDS Integers, Sequences, FiniteSets, TLC

VARIABLES
    pc,              \* position of the running handler / function
    call,            \* arguments of the function under check (is_pii)
    ret,             \* its return value
    blob,            \* entity loop: the pool text searched (forms_text / table_text)
    pii_offsets,     \* entity loop: detect_pii(blob)
    entities,        \* entity loop: entities_response['Entities']
    idx,             \* entity loop: number of entities processed
    current_offset,  \* entity loop: the cursor
    entity_groups,   \* entity loop: Type -> list of {Text, Score, Redacted}
    offsets,         \* entity loop: entity_offset computed for each processed entity
    pool_key,        \* entity loop: the key the groups are stored under
    response,        \* textract: response['Blocks'] of get_document_analysis
    extracted_data,  \* textract: what process_textract_response returned
    attempt,         \* get_textract_results: the loop counter
    slept,           \* get_textract_results: seconds spent in time.sleep
    status,          \* get_textract_results: JobStatus of the last poll
    polls,           \* get_textract_results: calls of get_document_analysis so far
    status_message,  \* get_textract_results: StatusMessage of the last poll
    error,           \* get_textract_results: the exception raised
    event,           \* comprehend: the event lambda_handler received
    provider,        \* comprehend: what the Comprehend calls of this request answer
    insights,        \* comprehend: the insights dict being filled
    table_idx,       \* comprehend: index of the next table to process
    calls            \* comprehend: the Comprehend calls made so far

pureVars == <<call, ret>>
loopVars == <<blob, pii_offsets, entities, idx, current_offset, entity_groups, offsets,
              pool_key>>
resolveVars == <<response, extracted_data>>
pollVars == <<attempt, slept, status, polls, status_message, error>>
handlerVars == <<event, provider, insights, table_idx, calls>>
vars == <<pc, call, ret, blob, pii_offsets, entities, idx, current_offset,
          entity_groups, offsets, pool_key, response, extracted_data,
          attempt, slept, status, polls, status_message, error,
          event, provider, insights, table_idx, calls>>

None == "none"

(***************************************************************************)
(* Python string primitives                                                *)
(***************************************************************************)
Min(a, b) == IF a <= b THEN a ELSE b
Max(a, b) == IF a >= b THEN a ELSE b

\* A character is its code point, a text the sequence of its characters.
Ch == [a |-> 97, b |-> 98, c |-> 99, d |-> 100, g |-> 103, k |-> 107, o |-> 111,
       t |-> 116, v |-> 118, x |-> 120, space |-> 32, colon |-> 58,
       tab |-> 9, lf |-> 10, vt |-> 11, ff |-> 12, cr |-> 13, fs |-> 28, us |-> 31,
       nel |-> 133, nbsp |-> 160, emsp |-> 8195, ideosp |-> 12288]

\* the characters str.strip() with no argument removes: those for which
\* str.isspace() holds
Whitespace ==
    (9..13) \cup (28..32) \cup {133, 160, 5760} \cup (8192..8202)
    \cup {8232, 8233, 8239, 8287, 12288}

\* t[start:] as Python slices it (start >= 0)
SliceFrom(t, start) == SubSeq(t, start + 1, Len(t))

\* t[:n]
SliceTo(t, n) == SubSeq(t, 1, Min(n, Len(t)))

\* t.startswith(sub, k): sub occurs in t at 0-based position k
OccursAt(t, sub, k) ==
    /\ k >= 0
    /\ k + Len(sub) <= Len(t)
    /\ \A j \in 1..Len(sub) : t[k + j] = sub[j]

\* t.find(sub, start): lowest position >= start where sub occurs, else -1
\* (t.index(sub, start) raises ValueError where find returns -1)
Find(t, sub, start) ==
    LET last == Len(t) - Len(sub)
    IN IF \E p \in start..last : OccursAt(t, sub, p)
       THEN CHOOSE p \in start..last :
               OccursAt(t, sub, p) /\ \A q \in start..(p - 1) : ~OccursAt(t, sub, q)
       ELSE -1

\* a strip that removes nothing
StripNothingMutant(t) == t

\* t.strip()
RECURSIVE LStrip(_)
LStrip(t) ==
    IF t # <<>> /\ Head(t) \in Whitespace THEN LStrip(Tail(t)) ELSE t

RECURSIVE RStrip(_)
RStrip(t) ==
    IF t # <<>> /\ t[Len(t)] \in Whitespace THEN RStrip(SubSeq(t, 1, Len(t) - 1)) ELSE t

Strip(t) == RStrip(LStrip(t))

\* sep.join(parts)
RECURSIVE Join(_, _)
Join(sep, parts) ==
    IF parts = <<>> THEN <<>>
    ELSE IF Len(parts) = 1 THEN parts[1]
    ELSE parts[1] \o sep \o Join(sep, Tail(parts))

\* a text of n copies of character c
Rep(c, n) == [i \in 1..n |-> c]

\* all sequences over S of length lo..hi
SeqsOf(S, lo, hi) == UNION {[1..n -> S] : n \in lo..hi}

(***************************************************************************)
(* comprehend-lambda.py: is_pii                                            *)
(***************************************************************************)
\* is_pii(text, pii_offsets, start_offset), lines 40-46; spans is its pii_offsets
IsPiiAbutMutant(text, spans, start_offset) ==
    LET text_start == start_offset
        text_end == start_offset + Len(text)
    IN \E i \in 1..Len(spans) :
          LET begin == spans[i][1]
              end == spans[i][2]
          IN \/ (begin <= text_start /\ text_start <= end)
             \/ (begin <= text_end /\ text_end <= end)
             \/ (text_start <= begin /\ begin < text_end)

is_pii(text, spans, start_offset) ==
    LET text_start == start_offset
        text_end == start_offset + Len(text)
    IN \E i \in 1..Len(spans) :
          LET begin == spans[i][1]
              end == spans[i][2]
          IN \/ (begin <= text_start /\ text_start < end)
             \/ (begin < text_end /\ text_end <= end)
             \/ (text_start <= begin /\ begin < text_end)

(***************************************************************************)
(* comprehend-lambda.py: offset reconstruction inside the entity loops     *)
(***************************************************************************)
\* lines 95-100 / 123-127: try index(), except ValueError keep the cursor
LocateRestartMutant(text, entity_text, cursor) ==
    LET p == Find(text, entity_text, 0)
    IN IF p >= 0
       THEN [entity_offset |-> p, current_offset |-> p + Len(entity_text), found |-> TRUE]
       ELSE [entity_offset |-> cursor, current_offset |-> cursor, found |-> FALSE]

LocateEntity(text, entity_text, cursor) ==
    LET p == Find(text, entity_text, cursor)
    IN IF p >= 0
       THEN [entity_offset |-> p, current_offset |-> p + Len(entity_text), found |-> TRUE]
       ELSE [entity_offset |-> cursor, current_offset |-> cursor, found |-> FALSE]

\* the empty dict
EmptyDict == [k \in {} |-> <<>>]

\* d[k] = v on a dict
DictSet(d, k, v) == [x \in DOMAIN d \cup {k} |-> IF x = k THEN v ELSE d[x]]

\* one iteration of the entity loop, lines 90-105 / 119-132.
\* st = [current_offset, entity_groups, offsets]
EntityStep(text, spans, st, entity) ==
    LET loc == LocateEntity(text, entity.Text, st.current_offset)
        groups == IF entity.Type \in DOMAIN st.entity_groups
                  THEN st.entity_groups
                  ELSE DictSet(st.entity_groups, entity.Type, <<>>)
        item == [Text |-> entity.Text, Score |-> entity.Score,
                 Redacted |-> is_pii(entity.Text, spans, loc.entity_offset)]
    IN [current_offset |-> loc.current_offset,
        entity_groups |-> DictSet(groups, entity.Type, Append(groups[entity.Type], item)),
        offsets |-> Append(st.offsets, loc.entity_offset)]

\* the whole loop over entities_response['Entities']
RECURSIVE EntityLoopFrom(_, _, _, _)
EntityLoopFrom(text, spans, st, ents) ==
    IF ents = <<>> THEN st
    ELSE EntityLoopFrom(text, spans, EntityStep(text, spans, st, Head(ents)), Tail(ents))

\* lines 88-89 / 117-118, then the loop
EntityLoop(text, spans, ents) ==
    EntityLoopFrom(text, spans,
                   [current_offset |-> 0, entity_groups |-> EmptyDict, offsets |-> <<>>],
                   ents)

(***************************************************************************)
(* comprehend-lambda.py: lambda_handler                                    *)
(*                                                                         *)
(* forms is the dict in its insertion order: a sequence of <<key, value>>. *)
(* A Comprehend call is logged as [api, pool, size of the Text argument].  *)
(***************************************************************************)
ComprehendLimit == 5000
TopPhraseCount == 10

\* text[:5000], lines 55, 65, 85, 114
Truncated(text) == SliceTo(text, ComprehendLimit)

\* lines 32-37: detect_pii(text) submits the text as it is
SubmittedToPii(text) == text

\* lines 51, 83, 112: pii_offsets = detect_pii(...) replaces the spans of the
\* pool handled before
StalePiiMutant(answer, previous) == previous

FreshPii(answer, previous) == answer

Call(api, pool, text) == [api |-> api, pool |-> pool, size |-> Len(text)]

\* line 49
FullText(results) == Join(<<Ch.space>>, results.text)

\* line 81
FormsText(forms_dict) ==
    Join(<<Ch.space>>, [i \in 1..Len(forms_dict) |->
                      forms_dict[i][1] \o <<Ch.colon, Ch.space>> \o forms_dict[i][2]])

\* line 110
TableText(table) ==
    Join(<<Ch.space>>, [i \in 1..Len(table.rows) |-> Join(<<Ch.space>>, table.rows[i])])

\* line 133: f'table_{table_idx}'
TableKey(i) == "table_" \o ToString(i)

\* line 75: key_phrases_response['KeyPhrases'][:10]
SelectedPhrases(phrases) == SliceTo(phrases, TopPhraseCount)

\* lines 69-76
TopPhrases(phrases, spans) ==
    LET top == SelectedPhrases(phrases)
    IN [k \in 1..Len(top) |->
          [Phrase |-> top[k].Text, Score |-> top[k].Score,
           Redacted |-> is_pii(top[k].Text, spans, top[k].BeginOffset)]]

\* lines 25-29
EmptyInsights == [entities |-> EmptyDict, sentiment |-> EmptyDict, key_phrases |-> EmptyDict]

(***************************************************************************)
(* textract-lambda.py: process_textract_response                           *)
(*                                                                         *)
(* A block is a record with one field per key of the Python dict.  A key  *)
(* that may be missing holds a tuple: <<>> when the dict lacks the key,    *)
(* <<v>> when it holds v.  BlockType and a relationship's Type are strings *)
(* (None when missing).                                                    *)
(***************************************************************************)
ConfidenceThreshold == 80

Absent == <<>>
Some(v) == <<v>>
Has(x) == x # Absent
Val(x) == x[1]

\* a Confidence that cannot be compared with 80 (a string, a null)
Unusable == <<"unusable", "confidence">>

Range(f) == {f[i] : i \in DOMAIN f}

\* sorted(S) for a finite set of integers
RECURSIVE Sorted(_)
Sorted(S) ==
    IF S = {} THEN <<>>
    ELSE LET m == CHOOSE x \in S : \A y \in S : x <= y
         IN <<m>> \o Sorted(S \ {m})

\* block.get('Relationships', [])
Rels(block) == IF Has(block.Relationships) THEN Val(block.Relationships) ELSE <<>>

\* d.get(key, default) on a block field
Get(v, default) == IF Has(v) THEN Val(v) ELSE default

\* line 88: the test of the list comprehension
PassesFilterAllMutant(block) == TRUE

PassesFilter(block) ==
    ~Has(block.Confidence) \/ Val(block.Confidence) >= ConfidenceThreshold

\* line 88: filtered_blocks
FilteredBlocks(blocks) == SelectSeq(blocks, PassesFilter)

\* lines 91-101: get_child_blocks(block, blocks); any exception gives []
GetChildBlocksCore(block, blocks) ==
    LET rels == Rels(block)
        isChild(rel) == rel.Type = "CHILD"
        childRels == SelectSeq(rels, isChild)
    IN IF \E i \in 1..Len(rels) : rels[i].Type = None \/ (isChild(rels[i]) /\ ~Has(rels[i].Ids))
       THEN <<>>                                           \* KeyError, caught
       ELSE IF childRels = <<>> THEN <<>>
       ELSE IF \E i \in 1..Len(blocks) : ~Has(blocks[i].Id)
       THEN <<>>                                           \* KeyError on b['Id'], caught
       ELSE LET child_ids == Range(Val(childRels[1].Ids))
                isListed(b) == Val(b.Id) \in child_ids
            IN SelectSeq(blocks, isListed)

get_child_blocks(block, blocks) == GetChildBlocksCore(block, blocks)

\* ' '.join([child.get('Text', '') for child in children])
RECURSIVE ChildTexts(_)
ChildTexts(children) ==
    IF children = <<>> THEN <<>>
    ELSE <<Get(Head(children).Text, <<>>)>> \o ChildTexts(Tail(children))

JoinedText(children) == Join(<<Ch.space>>, ChildTexts(children))

\* lines 116-128: the loop over cells, building row_data
RECURSIVE CellLoop(_, _, _)
CellLoop(row_data, cells, filtered_blocks) ==
    IF cells = <<>> THEN row_data
    ELSE LET cell == Head(cells)
             row_index == Get(cell.RowIndex, 0)
             col_index == Get(cell.ColumnIndex, 0)
             text == JoinedText(get_child_blocks(cell, filtered_blocks))
             row == IF row_index \in DOMAIN row_data THEN row_data[row_index] ELSE EmptyDict
             next == IF Strip(text) # <<>>
                     THEN DictSet(row_data, row_index, DictSet(row, col_index, text))
                     ELSE row_data
         IN CellLoop(next, Tail(cells), filtered_blocks)

\* lines 129-130: rows by sorted row index, each by its own sorted column indices
GridRowsDescendingMutant(row_data) ==
    LET rows == Sorted({0 - r : r \in DOMAIN row_data})
    IN [k \in 1..Len(rows) |->
          LET cols == Sorted(DOMAIN row_data[0 - rows[k]])
          IN [m \in 1..Len(cols) |-> row_data[0 - rows[k]][cols[m]]]]

GridRows(row_data) ==
    LET rows == Sorted(DOMAIN row_data)
    IN [k \in 1..Len(rows) |->
          LET cols == Sorted(DOMAIN row_data[rows[k]])
          IN [m \in 1..Len(cols) |-> row_data[rows[k]][cols[m]]]]

\* lines 112-133: the TABLE branch
TableBranch(acc, block, filtered_blocks) ==
    LET cells == get_child_blocks(block, filtered_blocks)
        rows == GridRows(CellLoop(EmptyDict, cells, filtered_blocks))
    IN IF rows # <<>>
       THEN [acc EXCEPT !.tables = Append(@, [rows |-> rows])]
       ELSE acc

\* lines 106-111: the LINE branch appends whenever 'Text' is a key of the block
LineBranch(acc, block) ==
    IF Has(block.Text)
    THEN [acc EXCEPT !.text = Append(@, Val(block.Text))]
    ELSE acc

\* lines 140-148: the loop over filtered_blocks looking for the VALUE blocks
RECURSIVE ValueLoopKeepsBlankMutant(_, _, _, _, _)
ValueLoopKeepsBlankMutant(forms, key_text, value_block_ids, rest, filtered_blocks) ==
    IF rest = <<>> THEN forms
    ELSE LET value_block == Head(rest)
             value_text == JoinedText(get_child_blocks(value_block, filtered_blocks))
             next == IF Val(value_block.Id) \in value_block_ids
                     THEN DictSet(forms, key_text, value_text)
                     ELSE forms
         IN ValueLoopKeepsBlankMutant(next, key_text, value_block_ids, Tail(rest),
                                      filtered_blocks)

RECURSIVE ValueLoop(_, _, _, _, _)
ValueLoop(forms, key_text, value_block_ids, rest, filtered_blocks) ==
    IF rest = <<>> THEN forms
    ELSE LET value_block == Head(rest)
             value_text == JoinedText(get_child_blocks(value_block, filtered_blocks))
             next == IF Val(value_block.Id) \in value_block_ids /\ Strip(value_text) # <<>>
                     THEN DictSet(forms, key_text, value_text)
                     ELSE forms
         IN ValueLoop(next, key_text, value_block_ids, Tail(rest), filtered_blocks)

\* lines 134-150: the KEY_VALUE_SET branch
KeyValueBranch(acc, block, filtered_blocks) ==
    IF "KEY" \notin Val(block.EntityTypes) THEN acc
    ELSE LET key_text == JoinedText(get_child_blocks(block, filtered_blocks))
             rels == Rels(block)
             isValue(rel) == rel.Type = "VALUE"
             valueRels == SelectSeq(rels, isValue)
         IN IF Strip(key_text) = <<>> THEN acc
            ELSE IF \E i \in 1..Len(valueRels) :
                       ~Has(valueRels[i].Ids) \/ Val(valueRels[i].Ids) = <<>>
            THEN acc                                       \* KeyError / IndexError, line 151
            ELSE LET value_block_ids == {Val(valueRels[i].Ids)[1] : i \in 1..Len(valueRels)}
                 IN [acc EXCEPT !.forms =
                        ValueLoop(@, key_text, value_block_ids, filtered_blocks, filtered_blocks)]

\* lines 104-153: the body of `for block in filtered_blocks`
ProcessBlock(acc, block, filtered_blocks) ==
    IF block.BlockType = None THEN acc                     \* KeyError, line 151
    ELSE IF block.BlockType = "LINE" THEN LineBranch(acc, block)
    ELSE IF block.BlockType = "TABLE" THEN TableBranch(acc, block, filtered_blocks)
    ELSE IF block.BlockType = "KEY_VALUE_SET" /\ Has(block.EntityTypes)
         THEN KeyValueBranch(acc, block, filtered_blocks)
    ELSE acc

RECURSIVE BlockLoop(_, _, _)
BlockLoop(acc, rest, filtered_blocks) ==
    IF rest = <<>> THEN acc
    ELSE BlockLoop(ProcessBlock(acc, Head(rest), filtered_blocks), Tail(rest), filtered_blocks)

\* lines 80-155
process_textract_response(blocks) ==
    IF \E i \in 1..Len(blocks) : blocks[i].Confidence = Unusable
    THEN [raised |-> TRUE, data |-> None]                  \* TypeError at line 88
    ELSE LET filtered_blocks == FilteredBlocks(blocks)
         IN [raised |-> FALSE,
             data |-> BlockLoop([text |-> <<>>, tables |-> <<>>, forms |-> EmptyDict],
                                filtered_blocks, filtered_blocks)]

(***************************************************************************)
(* textract-lambda.py: get_textract_results                                *)
(***************************************************************************)
max_attempts == 30
SleepSeconds == 2

\* line 61: the loop condition
KeepPolling(n) == n < max_attempts

\* line 70: the message of the exception raised for a FAILED job
FailureMessage(msg) ==
    [kind |-> "failed", reason |-> Get(msg, "Unknown error")]

\* nothing raised
NoError == [kind |-> "none", reason |-> "none"]

\* lines 68, 71-73: an exception of process_textract_response is logged and
\* raised again
ResolveError == [kind |-> "exception", reason |-> "process_textract_response"]

\* line 78
TimeoutMessage == [kind |-> "timeout", reason |-> "Textract job timed out"]

(***************************************************************************)
(* Bounds                                                                  *)
(***************************************************************************)
MaxOffset == 6       \* PII span ends and candidate starts range over 0..MaxOffset
MaxTextLen == 3      \* candidate / entity text length
MaxSpans == 2        \* PII spans per pool
MaxBlobLen == 4      \* generated pool text length (entity loop)
MaxEntities == 2     \* entities returned by the detector (entity loop)
MaxEntLen == 2       \* entity text length (entity loop)
MaxLines == 2        \* LINE blocks in a generated response
MaxCells == 2        \* CELL blocks of a generated table
MaxPairs == 2        \* KEY/VALUE pairs in a generated response
MaxTables == 2       \* tables in a generated event
MaxPhrases == 2      \* key phrases in a generated answer (besides the long answers)

Alphabet == {Ch.a, Ch.b}

(***************************************************************************)
(* Specification SpecPii: is_pii applied to bounded inputs                 *)
(***************************************************************************)
IdleLoop ==
    /\ blob = <<>> /\ pii_offsets = <<>> /\ entities = <<>> /\ idx = 0
    /\ current_offset = 0 /\ entity_groups = EmptyDict /\ offsets = <<>>
    /\ pool_key = None

IdlePure == call = None /\ ret = Absent

IdleResolve == response = <<>> /\ extracted_data = Absent

IdlePoll ==
    /\ attempt = 0 /\ slept = 0 /\ status = None /\ polls = 0
    /\ status_message = Absent /\ error = NoError

IdleHandler ==
    /\ event = None /\ provider = None /\ insights = None /\ table_idx = 0 /\ calls = <<>>

\* PII spans as Comprehend reports them: 0 <= BeginOffset < EndOffset
PiiSpans == {<<b, e>> : b \in 0..MaxOffset, e \in 0..MaxOffset} \
            {sp \in (0..MaxOffset) \X (0..MaxOffset) : sp[1] >= sp[2]}

\* the worked examples of the overlap rule: PII [5,10) against four candidates
ExampleCalls ==
    {[text |-> Rep(Ch.x, c[2] - c[1]), pii_offsets |-> <<<<5, 10>>>>, start_offset |-> c[1]] :
        c \in {<<8, 12>>, <<10, 15>>, <<0, 5>>, <<6, 7>>}}

PiiCalls ==
    {[text |-> Rep(Ch.x, n), pii_offsets |-> sps, start_offset |-> s] :
        n \in 1..MaxTextLen, sps \in SeqsOf(PiiSpans, 0, MaxSpans), s \in 0..MaxOffset}
    \cup ExampleCalls

InitPii ==
    /\ pc = "is_pii"
    /\ call \in PiiCalls
    /\ ret = Absent
    /\ IdleLoop
    /\ IdleResolve
    /\ IdlePoll
    /\ IdleHandler

IsPiiCall ==
    /\ pc = "is_pii"
    /\ ret' = Some(is_pii(call.text, call.pii_offsets, call.start_offset))
    /\ pc' = "done"
    /\ UNCHANGED <<call, loopVars, resolveVars, pollVars, handlerVars>>

NextPii == IsPiiCall

SpecPii == InitPii /\ [][NextPii]_vars

\* two half-open spans [s, te) and [b, e) share a position
Overlaps(s, te, b, e) == \E k \in s..(te - 1) : b <= k /\ k < e

\* C1: is_pii returns true iff some PII span [b,e) shares a position with the
\* candidate span [s, s+len(text)); a candidate that ends where a PII span begins,
\* or starts where one ends, is not flagged by that span.
C1_IsPiiIffOverlap ==
    pc = "done" =>
        LET s == call.start_offset
            te == call.start_offset + Len(call.text)
            sps == call.pii_offsets
        IN /\ Val(ret) = (\E i \in 1..Len(sps) :
                         Overlaps(s, te, sps[i][1], sps[i][2]))
           /\ (\A i \in 1..Len(sps) : sps[i][1] = te \/ sps[i][2] = s) => Val(ret) = FALSE

C1_Witness ==
    /\ pc = "done"
    /\ Len(call.pii_offsets) = 1
    /\ call.pii_offsets[1][1] = call.start_offset + Len(call.text)
    /\ Val(ret) = FALSE

(***************************************************************************)
(* Specification SpecLoop: the entity loop over one pool's text            *)
(***************************************************************************)
Cat == <<Ch.c, Ch.a, Ch.t>>
CatDogCat == <<Ch.c, Ch.a, Ch.t, Ch.space, Ch.d, Ch.o, Ch.g, Ch.space, Ch.c, Ch.a, Ch.t>>

Entity(text) == [Type |-> "PERSON", Text |-> text, Score |-> 9]

\* entity texts as Comprehend reports them: at least one character
LoopEntities == {Entity(t) : t \in SeqsOf(Alphabet, 1, MaxEntLen)}

LoopPii == {<<>>, <<<<1, 3>>>>}

\* the forms dicts whose text the forms loop searches, and the entities found in it
LoopForms == {<<<<<<Ch.k>>, <<Ch.v>>>>>>,
              <<<<<<Ch.k>>, <<Ch.v>>>>, <<<<Ch.v>>, <<Ch.v>>>>>>}

LoopFormEntities == {Entity(<<Ch.k>>), Entity(<<Ch.v>>)}

\* the state at line 90 / 119: the pool text passed the guard of line 82 / 111 (it
\* is not blank), detect_pii and detect_entities have been called for it (lines
\* 83-87 / 112-116), entity_groups and current_offset are fresh.  A table text is
\* any non-blank text; a forms text has the shape 'key: value key: value'.
InitLoop ==
    /\ pc = "entity_loop"
    /\ \/ /\ blob \in {t \in SeqsOf(Alphabet, 0, MaxBlobLen) : Strip(t) # <<>>}
          /\ entities \in SeqsOf(LoopEntities, 0, MaxEntities)
          /\ pool_key = TableKey(0)
          /\ table_idx = 0
       \/ /\ blob = CatDogCat
          /\ entities = <<Entity(Cat), Entity(Cat)>>
          /\ \E i \in 0..(MaxTables - 1) : pool_key = TableKey(i) /\ table_idx = i
       \/ /\ \E forms_dict \in LoopForms : blob = FormsText(forms_dict)
          /\ entities \in SeqsOf(LoopFormEntities, 0, MaxEntities)
          /\ pool_key = "forms"
          /\ table_idx = 0
    /\ pii_offsets \in LoopPii
    /\ idx = 0
    /\ current_offset = 0
    /\ entity_groups = EmptyDict
    /\ offsets = <<>>
    /\ event = None /\ provider = None
    /\ calls = <<Call("detect_pii_entities", pool_key, SubmittedToPii(blob)),
                 Call("detect_entities", pool_key, Truncated(blob))>>
    /\ insights = EmptyInsights
    /\ IdlePure
    /\ IdleResolve
    /\ IdlePoll

\* one pass through the body of `for entity in entities_response['Entities']`
EntityIteration ==
    /\ pc = "entity_loop"
    /\ idx < Len(entities)
    /\ LET st == EntityStep(blob, pii_offsets,
                            [current_offset |-> current_offset,
                             entity_groups |-> entity_groups,
                             offsets |-> offsets],
                            entities[idx + 1])
       IN /\ current_offset' = st.current_offset
          /\ entity_groups' = st.entity_groups
          /\ offsets' = st.offsets
    /\ idx' = idx + 1
    /\ UNCHANGED <<pc, blob, pii_offsets, entities, pool_key, pureVars, resolveVars,
                   pollVars, handlerVars>>

\* the loop is exhausted: insights['entities'][pool] = entity_groups, line 106
\* ('forms') / line 133 (f'table_{table_idx}')
EntityLoopEnd ==
    /\ pc = "entity_loop"
    /\ idx = Len(entities)
    /\ insights' = [insights EXCEPT !.entities = DictSet(@, pool_key, entity_groups)]
    /\ pc' = "done"
    /\ UNCHANGED <<loopVars, pureVars, resolveVars, pollVars, event, provider, table_idx,
                   calls>>

NextLoop == EntityIteration \/ EntityLoopEnd

SpecLoop == InitLoop /\ [][NextLoop]_vars

\* entity i was located by the search (not by the fallback)
FoundAt(i) == OccursAt(blob, entities[i].Text, offsets[i])

\* the positions >= c at which text e occurs in the blob
Occurrences(e, c) == {p \in c..Len(blob) : OccursAt(blob, e, p)}

SetMin(S) == CHOOSE x \in S : \A y \in S : x <= y

C2_StateOk ==
    /\ idx = 0 => current_offset = 0
    /\ Len(offsets) = idx
    /\ \A i, j \in 1..Len(offsets) : i < j => offsets[i] <= offsets[j]
    /\ \A i, j \in 1..Len(offsets) :
          (i < j /\ FoundAt(i) /\ FoundAt(j)) =>
              offsets[i] + Len(entities[i].Text) <= offsets[j]
    /\ (blob = CatDogCat /\ idx = 2 /\ entities = <<Entity(Cat), Entity(Cat)>>)
           => offsets = <<0, 8>>

C2_StepOk ==
    /\ current_offset' >= current_offset
    /\ idx' = idx + 1 =>
          LET e == entities[idx + 1].Text
              occ == Occurrences(e, current_offset)
          IN IF occ # {}
             THEN /\ offsets' = Append(offsets, SetMin(occ))
                  /\ current_offset' = SetMin(occ) + Len(e)
             ELSE /\ offsets' = Append(offsets, current_offset)
                  /\ current_offset' = current_offset

\* C2: the cursor starts at 0 and never decreases; each entity, in detector order,
\* gets the first position at or after the cursor where its text occurs (and the
\* cursor moves past it), or else the cursor itself (cursor unchanged); so offsets
\* are non-decreasing, found annotations never overlap, and "cat dog cat" with
\* ["cat","cat"] gives [0, 8].
C2_CursorSearch == [](C2_StateOk) /\ [][C2_StepOk]_vars

C2_Witness ==
    /\ pc = "done"
    /\ idx = 2
    /\ entities[1].Text = entities[2].Text
    /\ FoundAt(1) /\ FoundAt(2)
    /\ offsets[2] > offsets[1]

(***************************************************************************)
(* Specification SpecResolve: process_textract_response on bounded block   *)
(* lists.  Block ids are the block's position in the list.                 *)
(***************************************************************************)
Block(id, type) ==
    [Id |-> Some(id), BlockType |-> type, Text |-> Absent, Confidence |-> Absent,
     RowIndex |-> Absent, ColumnIndex |-> Absent, EntityTypes |-> Absent,
     Relationships |-> Absent]

Rel(type, ids) == [Type |-> type, Ids |-> Some(ids)]

High == Some(95)
Low == Some(50)

Word(id, opt) == [Block(id, "WORD") EXCEPT !.Text = opt.Text, !.Confidence = opt.Confidence]

\* the WORD under a cell, a key or a value
WordOptions ==
    {[Text |-> Some(<<Ch.a>>), Confidence |-> High],
     [Text |-> Some(<<Ch.b>>), Confidence |-> High],
     [Text |-> Some(<<Ch.space>>), Confidence |-> High],
     [Text |-> Some(<<Ch.vt>>), Confidence |-> High],
     [Text |-> Some(<<Ch.a>>), Confidence |-> Low]}

\* LINE blocks only
LineOptions ==
    [Text : {Absent, Some(<<>>), Some(<<Ch.a>>), Some(<<Ch.space>>)},
     Confidence : {Absent, Some(79), Some(80)}]

LineDoc(n, o) ==
    [i \in 1..n |->
        [Block(i, "LINE") EXCEPT !.Text = o[i].Text, !.Confidence = o[i].Confidence]]

\* one TABLE (id 1), its n CELLs (ids 2..n+1), one WORD per cell (ids n+2..2n+1)
CellOptions ==
    [RowIndex : {Some(1), Some(2)}, ColumnIndex : {Some(1), Some(2)},
     Confidence : {High}, word : WordOptions]
    \cup [RowIndex : {Some(1), Some(2)}, ColumnIndex : {Some(1), Some(2)},
          Confidence : {Low}, word : {[Text |-> Some(<<Ch.a>>), Confidence |-> High]}]

TableDoc(n, tconf, ids, o) ==
    <<[Block(1, "TABLE") EXCEPT !.Confidence = tconf,
                                !.Relationships = Some(<<Rel("CHILD", ids)>>)]>>
    \o [i \in 1..n |->
          [Block(1 + i, "CELL") EXCEPT !.Confidence = o[i].Confidence,
                                      !.RowIndex = o[i].RowIndex,
                                      !.ColumnIndex = o[i].ColumnIndex,
                                      !.Relationships = Some(<<Rel("CHILD", <<1 + n + i>>)>>)]]
    \o [i \in 1..n |-> Word(1 + n + i, o[i].word)]

\* the table lists its cells in block order or in the reverse order
CellIdOrders(n) == {[i \in 1..n |-> 1 + i], [i \in 1..n |-> 2 + n - i]}

\* a cell with two WORD children listed in the order <<4, 3>>, a cell with no
\* indices, a cell with no children, and a second table sharing the first cell
OddTableDoc(w1, w2, tconf) ==
     <<[Block(1, "TABLE") EXCEPT !.Confidence = High,
                                 !.Relationships = Some(<<Rel("CHILD", <<2, 5, 6>>)>>)],
       [Block(2, "CELL") EXCEPT !.Confidence = High, !.RowIndex = Some(1),
                                !.ColumnIndex = Some(1),
                                !.Relationships = Some(<<Rel("CHILD", <<4, 3>>)>>)],
       Word(3, w1), Word(4, w2),
       [Block(5, "CELL") EXCEPT !.Confidence = High,
                                !.Relationships = Some(<<Rel("CHILD", <<3>>)>>)],
       [Block(6, "CELL") EXCEPT !.Confidence = High, !.RowIndex = Some(1),
                                !.ColumnIndex = Some(2)],
       [Block(7, "TABLE") EXCEPT !.Confidence = tconf,
                                 !.Relationships = Some(<<Rel("CHILD", <<2>>)>>)]>>

\* n KEY/VALUE pairs; pair i is KEY 4i-3, VALUE 4i-2, key WORD 4i-1, value WORD 4i
PairDefects == {"none", "key_low", "value_low", "key_word_low", "value_word_low", "no_value"}

PairOptions ==
    [key : {<<Ch.a>>, <<Ch.b>>, <<Ch.space>>, <<Ch.nbsp>>},
     value : {<<Ch.a>>, <<Ch.b>>, <<Ch.space>>, <<Ch.vt, Ch.fs>>}, defect : {"none"}]
    \cup [key : {<<Ch.a>>}, value : {<<Ch.a>>}, defect : PairDefects]

LowIf(cond) == IF cond THEN Low ELSE High

PairBlocks(i, o) ==
    <<[Block(4 * i - 3, "KEY_VALUE_SET") EXCEPT
          !.Confidence = LowIf(o.defect = "key_low"),
          !.EntityTypes = Some({"KEY"}),
          !.Relationships =
              Some(IF o.defect = "no_value"
                   THEN <<Rel("CHILD", <<4 * i - 1>>)>>
                   ELSE <<Rel("VALUE", <<4 * i - 2>>), Rel("CHILD", <<4 * i - 1>>)>>)],
      [Block(4 * i - 2, "KEY_VALUE_SET") EXCEPT
          !.Confidence = LowIf(o.defect = "value_low"),
          !.EntityTypes = Some({"VALUE"}),
          !.Relationships = Some(<<Rel("CHILD", <<4 * i>>)>>)],
      Word(4 * i - 1, [Text |-> Some(o.key), Confidence |-> LowIf(o.defect = "key_word_low")]),
      Word(4 * i, [Text |-> Some(o.value), Confidence |-> LowIf(o.defect = "value_word_low")])>>

RECURSIVE FormDoc(_, _)
FormDoc(n, o) == IF n = 0 THEN <<>> ELSE FormDoc(n - 1, o) \o PairBlocks(n, o[n])

InitResolve ==
    /\ pc = "resolve"
    /\ \/ \E n \in 0..MaxLines : \E o \in [1..n -> LineOptions] :
             response = LineDoc(n, o)
       \/ \E n \in 0..MaxCells : \E o \in [1..n -> CellOptions] :
             \E tconf \in {High, Low} : \E ids \in CellIdOrders(n) :
                response = TableDoc(n, tconf, ids, o)
       \/ \E w1 \in WordOptions, w2 \in WordOptions, tconf \in {Absent, High, Low} :
             response = OddTableDoc(w1, w2, tconf)
       \/ \E n \in 0..MaxPairs : \E o \in [1..n -> PairOptions] :
             response = FormDoc(n, o)
    /\ extracted_data = Absent
    /\ IdlePure
    /\ IdleLoop
    /\ IdlePoll
    /\ IdleHandler

\* process_textract_response(response) returns
Resolve ==
    /\ pc = "resolve"
    /\ LET r == process_textract_response(response)
       IN /\ extracted_data' = IF r.raised THEN Absent ELSE Some(r.data)
          /\ pc' = IF r.raised THEN "raised" ELSE "done"
    /\ UNCHANGED <<response, pureVars, loopVars, pollVars, handlerVars>>

NextResolve == Resolve

SpecResolve == InitResolve /\ [][NextResolve]_vars

(***************************************************************************)
(* Specification SpecComprehend: lambda_handler of comprehend-lambda.py,   *)
(* one action per pool.  The answers of Comprehend for the request are     *)
(* drawn with the event.                                                   *)
(***************************************************************************)
Results(text, forms, tables) == [text |-> text, forms |-> forms, tables |-> tables]

Event(shape, results) == [shape |-> shape, jobId |-> "job-1", results |-> results]

Phrase(text, score, begin) == [Text |-> text, Score |-> score, BeginOffset |-> begin]

HandlerEntity(type, text) == [Type |-> type, Text |-> text, Score |-> 9]

TheSentiment == [Sentiment |-> "NEUTRAL", SentimentScore |-> 9]

Provider(pii, phrases, ents) ==
    [pii |-> pii, sentiment |-> TheSentiment, phrases |-> phrases, entities |-> ents]

\* PII spans answered per pool: for the document text, for the forms text, and
\* for the tables (first entry for table_0, table_2, .., second for table_1, ..)
PiiAnswers ==
    {[document |-> <<>>, forms |-> <<>>, table |-> <<<<>>, <<>>>>],
     [document |-> <<<<0, 1>>>>, forms |-> <<<<3, 4>>>>,
      table |-> <<<<<<2, 3>>>>, <<<<0, 1>>>>>>]}

\* the answer of detect_pii for the text of table i
TablePii(answers, i) == answers.table[(i % 2) + 1]

\* entities answered per pool kind
EntityAnswers ==
    {[forms |-> <<>>, table |-> <<>>],
     [forms |-> <<HandlerEntity("PERSON", <<Ch.v>>), HandlerEntity("OTHER", <<Ch.k>>),
                  HandlerEntity("PERSON", <<Ch.v>>)>>,
      table |-> <<HandlerEntity("PERSON", <<Ch.a>>), HandlerEntity("PERSON", <<Ch.a>>)>>]}

DocTexts == {<<>>, <<<<>>>>, <<<<Ch.space>>, <<>>>>, <<<<Ch.tab>>, <<Ch.lf, Ch.emsp>>>>, <<<<Ch.a>>>>,
             <<<<Ch.a>>, <<Ch.b>>>>}

FormDicts == {<<>>, <<<<<<Ch.k>>, <<Ch.v>>>>>>,
              <<<<<<Ch.k>>, <<Ch.v>>>>, <<<<Ch.v>>, <<Ch.v>>>>>>}

TableOptions == {[rows |-> <<>>], [rows |-> <<<<<<Ch.us>>, <<Ch.cr>>>>, <<<<Ch.ff, Ch.nel, Ch.ideosp>>>>>>],
                 [rows |-> <<<<<<Ch.a>>, <<Ch.b>>>>, <<<<Ch.a>>>>>>]}

PhraseOptions ==
    {Phrase(t, sc, b) : t \in {<<Ch.a>>, <<Ch.b>>}, sc \in {1, 2}, b \in {0, 2}}

\* n phrases with score lo, the one at position hi (if any) with score 2
ManyPhrases(n, hi) == [i \in 1..n |-> Phrase(<<Ch.a>>, IF i = hi THEN 2 ELSE 1, 0)]

\* a pool text of exactly n characters
LongLine(n) == Rep(Ch.a, n)

LongSizes == {ComprehendLimit - 1, ComprehendLimit, ComprehendLimit + 1}

InitComprehend ==
    /\ pc = "start"
    /\ \/ \E text \in DocTexts, forms \in FormDicts, pii \in PiiAnswers,
             ents \in EntityAnswers :
             \E n \in 0..MaxTables : \E tables \in [1..n -> TableOptions] :
                /\ event = Event("results", Results(text, forms, tables))
                /\ provider = Provider(pii, <<Phrase(<<Ch.a>>, 1, 0)>>, ents)
       \/ \E shape \in {"textractOutput", "missing"} :
             /\ event = Event(shape, Results(<<<<Ch.a>>>>, <<>>, <<>>))
             /\ provider = Provider(CHOOSE a \in PiiAnswers : a.document = <<>>, <<>>,
                                    CHOOSE a \in EntityAnswers : a.forms = <<>>)
       \/ \E pii \in PiiAnswers, text \in {<<<<Ch.a>>, <<Ch.b>>>>, <<<<Ch.a>>, <<Ch.a>>>>} :
             /\ event = Event("results", Results(text, <<>>, <<>>))
             /\ \/ \E n \in 0..MaxPhrases : \E ps \in [1..n -> PhraseOptions] :
                      provider = Provider(pii, ps, CHOOSE a \in EntityAnswers : a.forms = <<>>)
                \/ \E n \in (TopPhraseCount - 1)..(TopPhraseCount + 2) : \E hi \in 0..n :
                      provider = Provider(pii, ManyPhrases(n, hi),
                                          CHOOSE a \in EntityAnswers : a.forms = <<>>)
       \/ \E n \in LongSizes, pii \in PiiAnswers, ents \in EntityAnswers :
             /\ provider = Provider(pii, <<Phrase(<<Ch.a>>, 1, 0)>>, ents)
             /\ \/ event = Event("results", Results(<<LongLine(n)>>, <<>>, <<>>))
                \/ event = Event("results",
                                 Results(<<>>, <<<<<<Ch.k>>, LongLine(n)>>>>, <<>>))
                \/ event = Event("results",
                                 Results(<<>>, <<>>, <<[rows |-> <<<<LongLine(n)>>>>]>>))
    /\ insights = EmptyInsights
    /\ table_idx = 0
    /\ calls = <<>>
    /\ pii_offsets = <<>>
    /\ ret = Absent
    /\ call = None
    /\ blob = <<>> /\ entities = <<>> /\ idx = 0
    /\ current_offset = 0 /\ entity_groups = EmptyDict /\ offsets = <<>>
    /\ pool_key = None
    /\ IdleResolve
    /\ IdlePoll

\* lines 8-29: find the results in the event
HandlerStart ==
    /\ pc = "start"
    /\ pc' = IF event.shape \in {"results", "textractOutput"} THEN "document" ELSE "raised"
    /\ insights' = EmptyInsights
    /\ UNCHANGED <<event, provider, table_idx, calls, pureVars, loopVars, resolveVars,
                   pollVars>>

\* lines 48-77: the document text pool
DocumentPool ==
    /\ pc = "document"
    /\ LET full_text == FullText(event.results)
       IN IF Strip(full_text) # <<>>
          THEN /\ pii_offsets' = FreshPii(provider.pii.document, pii_offsets)
               /\ calls' = calls \o
                     <<Call("detect_pii_entities", "full_document", SubmittedToPii(full_text)),
                       Call("detect_sentiment", "full_document", Truncated(full_text)),
                       Call("detect_key_phrases", "full_document", Truncated(full_text))>>
               /\ insights' =
                     [insights EXCEPT
                        !.sentiment = DictSet(@, "full_document",
                            [Sentiment |-> provider.sentiment.Sentiment,
                             Scores |-> provider.sentiment.SentimentScore]),
                        !.key_phrases = DictSet(@, "full_document",
                            [TopPhrases |-> TopPhrases(provider.phrases,
                                            FreshPii(provider.pii.document, pii_offsets))])]
          ELSE UNCHANGED <<pii_offsets, calls, insights>>
    /\ pc' = "forms"
    /\ UNCHANGED <<event, provider, table_idx, pureVars, blob, entities, idx,
                   current_offset, entity_groups, offsets, pool_key, resolveVars, pollVars>>

\* lines 79-106: the forms pool
FormsPool ==
    /\ pc = "forms"
    /\ LET forms_text == FormsText(event.results.forms)
       IN IF Strip(forms_text) # <<>>
          THEN LET spans == FreshPii(provider.pii.forms, pii_offsets)
                   loop == EntityLoop(forms_text, spans, provider.entities.forms)
               IN /\ pii_offsets' = spans
                  /\ calls' = calls \o
                        <<Call("detect_pii_entities", "forms", SubmittedToPii(forms_text)),
                          Call("detect_entities", "forms", Truncated(forms_text))>>
                  /\ insights' = [insights EXCEPT
                                     !.entities = DictSet(@, "forms", loop.entity_groups)]
          ELSE UNCHANGED <<pii_offsets, calls, insights>>
    /\ pc' = "tables"
    /\ UNCHANGED <<event, provider, table_idx, pureVars, blob, entities, idx,
                   current_offset, entity_groups, offsets, pool_key, resolveVars, pollVars>>

\* lines 109-133: one table pool
TablePool ==
    /\ pc = "tables"
    /\ table_idx < Len(event.results.tables)
    /\ LET table_text == TableText(event.results.tables[table_idx + 1])
       IN IF Strip(table_text) # <<>>
          THEN LET spans == FreshPii(TablePii(provider.pii, table_idx), pii_offsets)
                   loop == EntityLoop(table_text, spans, provider.entities.table)
               IN /\ pii_offsets' = spans
                  /\ calls' = calls \o
                        <<Call("detect_pii_entities", TableKey(table_idx),
                               SubmittedToPii(table_text)),
                          Call("detect_entities", TableKey(table_idx), Truncated(table_text))>>
                  /\ insights' = [insights EXCEPT
                                     !.entities = DictSet(@, TableKey(table_idx),
                                                          loop.entity_groups)]
          ELSE UNCHANGED <<pii_offsets, calls, insights>>
    /\ table_idx' = table_idx + 1
    /\ UNCHANGED <<pc, event, provider, pureVars, blob, entities, idx,
                   current_offset, entity_groups, offsets, pool_key, resolveVars, pollVars>>

\* lines 136-140
HandlerReturn ==
    /\ pc = "tables"
    /\ table_idx = Len(event.results.tables)
    /\ ret' = Some([statusCode |-> 200, textract_job_id |-> event.jobId,
                     insights |-> insights])
    /\ pc' = "done"
    /\ UNCHANGED <<call, handlerVars, loopVars, resolveVars, pollVars>>

NextComprehend == HandlerStart \/ DocumentPool \/ FormsPool \/ TablePool \/ HandlerReturn

SpecComprehend == InitComprehend /\ [][NextComprehend]_vars

(***************************************************************************)
(* What the resolver is expected to produce, stated over positions of the  *)
(* block list instead of by the loops of the code.                         *)
(***************************************************************************)
LowConfidence(block) ==
    Has(block.Confidence) /\ Val(block.Confidence) < ConfidenceThreshold

\* the block list without its low-confidence blocks
Kept(blocks) ==
    LET keep(b) == ~LowConfidence(b) IN SelectSeq(blocks, keep)

\* the k-th smallest element of a finite set of integers
Nth(S, k) == CHOOSE x \in S : Cardinality({y \in S : y < x}) = k - 1

SetMax(S) == CHOOSE x \in S : \A y \in S : y <= x

\* positions in F of the blocks named by the first CHILD relationship of F[i]
ChildPos(F, i) ==
    LET rels == Rels(F[i])
        cs == {r \in 1..Len(rels) : rels[r].Type = "CHILD"}
    IN IF cs = {} THEN {}
       ELSE {j \in 1..Len(F) : \E m \in DOMAIN Val(rels[SetMin(cs)].Ids) :
                                  Val(rels[SetMin(cs)].Ids)[m] = Val(F[j].Id)}

\* the texts of the blocks at positions S, in list order, joined by single spaces
RECURSIVE TextAt(_, _)
TextAt(F, S) ==
    IF S = {} THEN <<>>
    ELSE LET j == SetMin(S)
             t == IF Has(F[j].Text) THEN Val(F[j].Text) ELSE <<>>
         IN IF S = {j} THEN t ELSE t \o <<Ch.space>> \o TextAt(F, S \ {j})

NonBlank(t) == \E k \in 1..Len(t) : t[k] \notin Whitespace

CellText(F, c) == TextAt(F, ChildPos(F, c))
RowOf(F, c) == IF Has(F[c].RowIndex) THEN Val(F[c].RowIndex) ELSE 0
ColOf(F, c) == IF Has(F[c].ColumnIndex) THEN Val(F[c].ColumnIndex) ELSE 0

\* the cells of table F[t] that keep a non-blank text
Survivors(F, t) == {c \in ChildPos(F, t) : NonBlank(CellText(F, c))}
RowSet(F, t) == {RowOf(F, c) : c \in Survivors(F, t)}
ColSet(F, t, r) == {ColOf(F, c) : c \in {x \in Survivors(F, t) : RowOf(F, x) = r}}

ExpectedGrid(F, t) ==
    [k \in 1..Cardinality(RowSet(F, t)) |->
        LET r == Nth(RowSet(F, t), k)
        IN [m \in 1..Cardinality(ColSet(F, t, r)) |->
               LET col == Nth(ColSet(F, t, r), m)
               IN CellText(F, SetMax({c \in Survivors(F, t) :
                                         RowOf(F, c) = r /\ ColOf(F, c) = col}))]]

\* the TABLE blocks that have at least one surviving row
EmittedTables(F) ==
    {t \in 1..Len(F) : F[t].BlockType = "TABLE" /\ RowSet(F, t) # {}}

\* C3: the tables of the result are, in block order, the TABLE blocks of the
\* filtered list with at least one surviving non-blank cell; a grid has one row per
\* distinct surviving row index, ascending, each row holding the values of the
\* columns present in it, ascending, the last cell processed winning a repeated
\* (row, col); a table with no such row is not emitted.
C3_TableGrid ==
    pc = "done" =>
        LET F == Kept(response)
            T == EmittedTables(F)
        IN /\ Len(Val(extracted_data).tables) = Cardinality(T)
           /\ \A k \in 1..Cardinality(T) :
                 Val(extracted_data).tables[k].rows = ExpectedGrid(F, Nth(T, k))

\* two surviving cells of one table at the same (row, col) of row 2
C3_Witness ==
    /\ pc = "done"
    /\ Len(Val(extracted_data).tables) = 1
    /\ \E t \in 1..Len(response) :
          /\ response[t].BlockType = "TABLE"
          /\ Cardinality(Survivors(Kept(response), t)) = 2
          /\ Cardinality(RowSet(Kept(response), t)) = 1
          /\ Cardinality(ColSet(Kept(response), t, 2)) = 1

\* a table whose cells are all blank or filtered is dropped
C3_WitnessDropped ==
    /\ pc = "done"
    /\ Val(extracted_data).tables = <<>>
    /\ \E t \in 1..Len(response) :
          response[t].BlockType = "TABLE" /\ ~LowConfidence(response[t])
          /\ ChildPos(Kept(response), t) # {}

\* KEY blocks of F, and the VALUE block each points at
KeyPos(F) ==
    {k \in 1..Len(F) : /\ F[k].BlockType = "KEY_VALUE_SET"
                       /\ Has(F[k].EntityTypes)
                       /\ "KEY" \in Val(F[k].EntityTypes)}

ValuePos(F, k) ==
    LET rels == Rels(F[k])
    IN {v \in 1..Len(F) : \E r \in 1..Len(rels) :
           rels[r].Type = "VALUE" /\ Val(rels[r].Ids)[1] = Val(F[v].Id)}

KeyText(F, k) == TextAt(F, ChildPos(F, k))
ValueText(F, v) == TextAt(F, ChildPos(F, v))

\* the (key block, value block) pairs whose key and value texts are both non-blank
Qualifying(F) ==
    {kv \in (1..Len(F)) \X (1..Len(F)) :
        /\ kv[1] \in KeyPos(F)
        /\ kv[2] \in ValuePos(F, kv[1])
        /\ NonBlank(KeyText(F, kv[1]))
        /\ NonBlank(ValueText(F, kv[2]))}

\* C4: a form field exists for a KEY block and its VALUE block (both in the filtered
\* list) iff key text and value text are non-blank; when a key text is produced
\* more than once the value of the last pair stands.
C4_FormFields ==
    pc = "done" =>
        LET F == Kept(response)
            Q == Qualifying(F)
        IN /\ DOMAIN Val(extracted_data).forms = {KeyText(F, kv[1]) : kv \in Q}
           /\ \A kv \in Q :
                 (\A other \in Q : KeyText(F, other[1]) = KeyText(F, kv[1])
                                       => other[1] <= kv[1])
                 => Val(extracted_data).forms[KeyText(F, kv[1])] = ValueText(F, kv[2])

\* two pairs with the same key text, so the second value overwrote the first; and
\* a pair dropped for a blank value
C4_Witness ==
    /\ pc = "done"
    /\ LET F == Kept(response)
       IN /\ \E a, b \in Qualifying(F) :
                /\ a[1] < b[1]
                /\ KeyText(F, a[1]) = KeyText(F, b[1])
                /\ ValueText(F, a[2]) # ValueText(F, b[2])
          /\ Cardinality(DOMAIN Val(extracted_data).forms) = 1

C4_WitnessDropped ==
    /\ pc = "done"
    /\ LET F == Kept(response)
       IN \E k \in KeyPos(F) : \E v \in ValuePos(F, k) :
             /\ NonBlank(KeyText(F, k))
             /\ ~NonBlank(ValueText(F, v))
             /\ Val(extracted_data).forms = EmptyDict

\* every text in the result
ResultLines(d) == Range(d.text)

\* C5: no block with a confidence below 80 contributes: the result is what the
\* response without those blocks resolves to, also when a kept block names one as
\* its CHILD or VALUE target; every line comes from a LINE block that is not below
\* 80; and a block without a confidence is always kept.
C5_LowConfidenceNeverContributes ==
    pc = "done" =>
        /\ Val(extracted_data) = process_textract_response(Kept(response)).data
        /\ \A x \in ResultLines(Val(extracted_data)) :
              \E i \in 1..Len(response) :
                 /\ response[i].BlockType = "LINE"
                 /\ ~LowConfidence(response[i])
                 /\ response[i].Text = Some(x)
        /\ \A i \in 1..Len(response) :
              ~Has(response[i].Confidence) =>
                  /\ response[i] \in Range(FilteredBlocks(response))
                  /\ (response[i].BlockType = "LINE" /\ Has(response[i].Text))
                        => Val(response[i].Text) \in ResultLines(Val(extracted_data))

\* a kept cell whose only WORD is below 80, and a kept KEY whose VALUE is below 80
C5_Witness ==
    /\ pc = "done"
    /\ \E i, j \in 1..Len(response) :
          /\ ~LowConfidence(response[i])
          /\ response[i].BlockType \in {"CELL", "KEY_VALUE_SET"}
          /\ LowConfidence(response[j])
          /\ \E r \in 1..Len(Rels(response[i])) :
                Val(response[j].Id) \in Range(Val(Rels(response[i])[r].Ids))
    /\ Val(extracted_data).tables = <<>>
    /\ Val(extracted_data).forms = EmptyDict

\* the lines the claim describes: the non-empty texts of the kept LINE blocks
RECURSIVE NonEmptyLineTexts(_)
NonEmptyLineTexts(F) ==
    IF F = <<>> THEN <<>>
    ELSE (IF Head(F).BlockType = "LINE" /\ Has(Head(F).Text) /\ Val(Head(F).Text) # <<>>
          THEN <<Val(Head(F).Text)>> ELSE <<>>) \o NonEmptyLineTexts(Tail(F))

\* C6: lines holds, in block order, one entry per filtered LINE block with a
\* non-empty text; a LINE whose text is absent or empty adds nothing, so no element
\* of lines is the empty string.
C6_LinesNonEmpty ==
    pc = "done" =>
        /\ Val(extracted_data).text = NonEmptyLineTexts(Kept(response))
        /\ \A k \in 1..Len(Val(extracted_data).text) : Val(extracted_data).text[k] # <<>>

(***************************************************************************)
(* Specification SpecPoll: get_textract_results against a provider that    *)
(* answers every poll with some JobStatus                                  *)
(***************************************************************************)
PendingStatuses == {"IN_PROGRESS", "PARTIAL_SUCCESS"}

StatusMessages == {Absent, Some("Unsupported document")}

\* Blocks of a SUCCEEDED response
PollDocs ==
    {<<>>,
     LineDoc(1, <<[Text |-> Some(<<Ch.a>>), Confidence |-> High]>>),
     FormDoc(1, <<[key |-> <<Ch.a>>, value |-> <<Ch.b>>, defect |-> "none"]>>),
     <<[Block(1, "LINE") EXCEPT !.Text = Some(<<Ch.a>>), !.Confidence = Unusable]>>}

InitPoll ==
    /\ pc = "polling"
    /\ attempt = 0
    /\ slept = 0
    /\ status = None
    /\ polls = 0
    /\ status_message = Absent
    /\ error = NoError
    /\ response = <<>>
    /\ extracted_data = Absent
    /\ IdlePure
    /\ IdleLoop
    /\ IdleHandler

\* lines 63-68, 71-73: the poll reports SUCCEEDED; the resolved data is returned,
\* or the exception of process_textract_response is logged and raised again
PollSucceeded ==
    /\ pc = "polling"
    /\ KeepPolling(attempt)
    /\ \E blocks \in PollDocs :
          LET r == process_textract_response(blocks)
          IN /\ response' = blocks
             /\ extracted_data' = IF r.raised THEN Absent ELSE Some(r.data)
             /\ error' = IF r.raised THEN ResolveError ELSE error
             /\ pc' = IF r.raised THEN "raised" ELSE "returned"
    /\ status' = "SUCCEEDED"
    /\ polls' = polls + 1
    /\ UNCHANGED <<attempt, slept, status_message, pureVars, loopVars, handlerVars>>

\* lines 63-73: the poll reports FAILED; the exception is logged and re-raised
PollFailed ==
    /\ pc = "polling"
    /\ KeepPolling(attempt)
    /\ \E msg \in StatusMessages :
          /\ status_message' = msg
          /\ error' = FailureMessage(msg)
    /\ status' = "FAILED"
    /\ polls' = polls + 1
    /\ pc' = "raised"
    /\ UNCHANGED <<attempt, slept, resolveVars, pureVars, loopVars, handlerVars>>

\* lines 63-76: any other status; sleep and count the attempt
PollPending ==
    /\ pc = "polling"
    /\ KeepPolling(attempt)
    /\ \E st \in PendingStatuses : status' = st
    /\ polls' = polls + 1
    /\ slept' = slept + SleepSeconds
    /\ attempt' = attempt + 1
    /\ UNCHANGED <<pc, status_message, error, resolveVars, pureVars, loopVars, handlerVars>>

\* line 78: the loop ran out
PollTimeout ==
    /\ pc = "polling"
    /\ ~KeepPolling(attempt)
    /\ error' = TimeoutMessage
    /\ pc' = "raised"
    /\ UNCHANGED <<attempt, slept, status, polls, status_message, resolveVars, pureVars,
                   loopVars, handlerVars>>

NextPoll == PollSucceeded \/ PollFailed \/ PollPending \/ PollTimeout

\* the function runs to its return or raise: each poll is answered, each sleep ends
SpecPoll == InitPoll /\ [][NextPoll]_vars /\ WF_vars(NextPoll)

C10_StateOk ==
    /\ polls <= 30
    /\ pc \in {"polling", "returned", "raised"}
    /\ pc = "polling" => /\ status \notin {"SUCCEEDED", "FAILED"}
                         /\ polls = attempt
                         /\ slept = 2 * polls
    /\ pc = "returned" => /\ status = "SUCCEEDED"
                          /\ error = NoError
                          /\ extracted_data = Some(process_textract_response(response).data)
    /\ pc = "raised" =>
          /\ extracted_data = Absent
          /\ \/ status = "FAILED" /\ error.kind = "failed"
             \/ /\ status \in PendingStatuses
                /\ error.kind = "timeout"
                /\ polls = 30

C10_StepOk ==
    /\ pc # "polling" => polls' = polls
    /\ polls' # polls =>
          /\ polls' = polls + 1
          /\ slept = 2 * polls
          /\ status' = "SUCCEEDED" => pc' = "returned"
          /\ status' = "FAILED" =>
                /\ pc' = "raised"
                /\ error'.kind = "failed"
                /\ Has(status_message') => error'.reason = Val(status_message')
          /\ status' \in PendingStatuses => pc' = "polling" /\ slept' = slept + 2

\* C10: at most 30 polls, 2 seconds apart; the function always ends, and in exactly
\* one of three ways: returning the resolved result at the first SUCCEEDED poll,
\* raising the failure with the provider's reason at the first FAILED poll, or
\* raising the timeout after 30 polls that were neither; no poll follows a
\* terminal status.
C10_PollingTerminates ==
    [](C10_StateOk) /\ [][C10_StepOk]_vars /\ <>(pc \in {"returned", "raised"})

(***************************************************************************)
(* Claims about lambda_handler of comprehend-lambda.py                     *)
(***************************************************************************)
\* the phrases ranked by score, descending, ties in detector order, cut to ten
RankedPhrases(phrases) ==
    LET better(i, j) == phrases[i].Score > phrases[j].Score
                        \/ (phrases[i].Score = phrases[j].Score /\ i < j)
        rank(i) == 1 + Cardinality({j \in 1..Len(phrases) : better(j, i)})
        n == IF Len(phrases) < 10 THEN Len(phrases) ELSE 10
    IN [k \in 1..n |-> phrases[CHOOSE i \in 1..Len(phrases) : rank(i) = k]]

DocumentDone == pc \in {"forms", "tables", "done"}

\* C7: for a non-blank document pool the key phrases of the result are the ten
\* phrases with the highest score (all if fewer), in descending score order, ties
\* in detector order.
C7_TopPhrasesByScore ==
    (DocumentDone /\ "full_document" \in DOMAIN insights.key_phrases) =>
        LET out == insights.key_phrases["full_document"].TopPhrases
            want == RankedPhrases(provider.phrases)
        IN /\ Len(out) = Len(want)
           /\ \A k \in 1..Len(out) :
                 out[k].Phrase = want[k].Text /\ out[k].Score = want[k].Score

\* the pools of the event: <<key, text>>
Pools ==
    {<<"full_document", FullText(event.results)>>, <<"forms", FormsText(event.results.forms)>>}
    \cup {<<TableKey(i - 1), TableText(event.results.tables[i])>> :
             i \in 1..Len(event.results.tables)}

CalledFor(key) == {calls[i].api : i \in {j \in 1..Len(calls) : calls[j].pool = key}}

HasEntry(key) ==
    \/ key \in DOMAIN insights.entities
    \/ key \in DOMAIN insights.sentiment
    \/ key \in DOMAIN insights.key_phrases

\* C8 as stated: every pool, the document pool included, has a categorized-entities
\* entry iff its text is non-blank; a blank pool causes no call and no entry.
C8_EveryPoolHasEntities ==
    pc = "done" =>
        \A pool \in Pools :
           /\ pool[1] \in DOMAIN insights.entities <=> NonBlank(pool[2])
           /\ ~NonBlank(pool[2]) => (CalledFor(pool[1]) = {} /\ ~HasEntry(pool[1]))

\* C8 (amended): the forms pool and each table pool have a categorized-entities
\* entry iff their text is non-blank; the document pool has a sentiment and a
\* key-phrases entry iff its text is non-blank and never an entities entry; a blank
\* pool causes no call and no entry, and the handler still returns.
C8_PoolEntries ==
    /\ event.shape # "missing" => pc # "raised"
    /\ pc = "done" =>
          \A pool \in Pools :
             /\ IF pool[1] = "full_document"
                THEN /\ pool[1] \in DOMAIN insights.sentiment <=> NonBlank(pool[2])
                     /\ pool[1] \in DOMAIN insights.key_phrases <=> NonBlank(pool[2])
                     /\ pool[1] \notin DOMAIN insights.entities
                     /\ "detect_entities" \notin CalledFor(pool[1])
                ELSE /\ pool[1] \in DOMAIN insights.entities <=> NonBlank(pool[2])
                     /\ pool[1] \notin DOMAIN insights.sentiment
                     /\ pool[1] \notin DOMAIN insights.key_phrases
             /\ ~NonBlank(pool[2]) => (CalledFor(pool[1]) = {} /\ ~HasEntry(pool[1]))
             /\ NonBlank(pool[2]) => "detect_pii_entities" \in CalledFor(pool[1])

\* a whitespace-only document pool, a non-blank forms pool, a blank table after a
\* non-blank one
C8_Witness ==
    /\ pc = "done"
    /\ event.results.text # <<>>
    /\ FullText(event.results) # <<>>
    /\ ~NonBlank(FullText(event.results))
    /\ \E k \in 1..Len(FullText(event.results)) : FullText(event.results)[k] = Ch.tab
    /\ "forms" \in DOMAIN insights.entities
    /\ Len(event.results.tables) = 2
    /\ "table_0" \in DOMAIN insights.entities
    /\ event.results.tables[2].rows # <<>>
    /\ "table_1" \notin DOMAIN insights.entities

\* C9: every text handed to a Comprehend call (detect_pii, detect_sentiment,
\* detect_key_phrases, detect_entities) is at most 5000 long.
C9_AllCallsTruncated ==
    \A i \in 1..Len(calls) : calls[i].size <= 5000

(***************************************************************************)
(* Specification SpecMalformed: process_textract_response on a well-formed *)
(* document (a LINE, a TABLE with one CELL, a KEY/VALUE pair) into which   *)
(* one malformed block is inserted at any position.  The inserted block    *)
(* has id 9 (when it has one) and is referenced by no other block.         *)
(***************************************************************************)
GoodWord(id, text) == Word(id, [Text |-> Some(text), Confidence |-> High])

GoodDoc(line, cell, value) ==
    <<[Block(1, "LINE") EXCEPT !.Text = Some(line), !.Confidence = High],
      [Block(2, "TABLE") EXCEPT !.Confidence = High,
                                !.Relationships = Some(<<Rel("CHILD", <<3>>)>>)],
      [Block(3, "CELL") EXCEPT !.Confidence = High, !.RowIndex = Some(1),
                               !.ColumnIndex = Some(1),
                               !.Relationships = Some(<<Rel("CHILD", <<4>>)>>)],
      GoodWord(4, cell),
      [Block(5, "KEY_VALUE_SET") EXCEPT
          !.Confidence = High, !.EntityTypes = Some({"KEY"}),
          !.Relationships = Some(<<Rel("VALUE", <<6>>), Rel("CHILD", <<7>>)>>)],
      [Block(6, "KEY_VALUE_SET") EXCEPT
          !.Confidence = High, !.EntityTypes = Some({"VALUE"}),
          !.Relationships = Some(<<Rel("CHILD", <<8>>)>>)],
      GoodWord(7, <<Ch.a>>),
      GoodWord(8, value)>>

GoodDocs == {GoodDoc(l, c, v) : l \in {<<Ch.a>>, <<Ch.b>>}, c \in {<<Ch.a>>, <<Ch.b>>},
                                v \in {<<Ch.a>>, <<Ch.b>>}}

\* a relationship dict without its 'Ids' key, and one without its 'Type' key
RelNoIds(type) == [Type |-> type, Ids |-> Absent]
RelNoType(ids) == [Type |-> None, Ids |-> Some(ids)]

ExtraLine == [Block(9, "LINE") EXCEPT !.Text = Some(<<Ch.b>>), !.Confidence = High]
ExtraTable == [Block(9, "TABLE") EXCEPT !.Confidence = High]
ExtraKey == [Block(9, "KEY_VALUE_SET") EXCEPT !.Confidence = High,
                                              !.EntityTypes = Some({"KEY"})]

\* the malformed blocks: no 'Id', no 'BlockType', a Confidence that is not a
\* number, a relationship without 'Ids' or 'Type', a VALUE relationship with no id
MalformedBlocks ==
    {[ExtraLine EXCEPT !.Id = Absent],
     [ExtraLine EXCEPT !.Id = Absent, !.Confidence = Low],
     [ExtraLine EXCEPT !.BlockType = None],
     [ExtraLine EXCEPT !.Confidence = Unusable],
     [ExtraTable EXCEPT !.Id = Absent, !.Relationships = Some(<<Rel("CHILD", <<3>>)>>)],
     [ExtraTable EXCEPT !.Relationships = Some(<<RelNoIds("CHILD")>>)],
     [ExtraTable EXCEPT !.Relationships = Some(<<RelNoType(<<3>>)>>)],
     [ExtraKey EXCEPT !.Relationships = Some(<<RelNoIds("VALUE"), Rel("CHILD", <<7>>)>>)],
     [ExtraKey EXCEPT !.Relationships = Some(<<Rel("VALUE", <<>>), Rel("CHILD", <<7>>)>>)],
     [ExtraKey EXCEPT !.BlockType = None,
                      !.Relationships = Some(<<Rel("VALUE", <<6>>), Rel("CHILD", <<7>>)>>)]}

InsertAt(blocks, p, block) ==
    SubSeq(blocks, 1, p) \o <<block>> \o SubSeq(blocks, p + 1, Len(blocks))

InitMalformed ==
    /\ pc = "resolve"
    /\ \E doc \in GoodDocs :
          \/ response = doc
          \/ \E bad \in MalformedBlocks, p \in 0..Len(doc) :
                response = InsertAt(doc, p, bad)
    /\ extracted_data = Absent
    /\ IdlePure
    /\ IdleLoop
    /\ IdlePoll
    /\ IdleHandler

NextMalformed == Resolve

SpecMalformed == InitMalformed /\ [][NextMalformed]_vars

\* a block that lacks a key the resolver reads without a default, or whose
\* Confidence cannot be compared with a number
MalformedRel(rel) ==
    \/ rel.Type = None
    \/ ~Has(rel.Ids)
    \/ (rel.Type = "VALUE" /\ Val(rel.Ids) = <<>>)

Malformed(block) ==
    \/ ~Has(block.Id)
    \/ block.BlockType = None
    \/ block.Confidence = Unusable
    \/ \E i \in 1..Len(Rels(block)) : MalformedRel(Rels(block)[i])

WellFormed(block) == ~Malformed(block)

\* what the other blocks contribute: the result for the document without the
\* malformed block
OthersContribution(blocks) == process_textract_response(SelectSeq(blocks, WellFormed)).data

\* s is t with zero or more elements left out
RECURSIVE IsSubSeq(_, _)
IsSubSeq(s, t) ==
    IF s = <<>> THEN TRUE
    ELSE IF t = <<>> THEN FALSE
    ELSE IF Head(s) = Head(t) THEN IsSubSeq(Tail(s), Tail(t))
    ELSE IsSubSeq(s, Tail(t))

\* C11: process_textract_response never raises because of one malformed block;
\* it returns a result that still holds every line, table and form field the
\* other blocks contribute (only the malformed block's own contribution may be
\* missing).
C11_MalformedBlockIsolated ==
    pc # "resolve" =>
        /\ pc = "done"
        /\ LET got == Val(extracted_data)
               want == OthersContribution(response)
           IN /\ IsSubSeq(want.text, got.text)
              /\ got.tables = want.tables
              /\ got.forms = want.forms

(***************************************************************************)
(* Redacted flags of the enrichment result                                 *)
(***************************************************************************)
\* the cursor of the sequential search before annotation k of texts is located
RECURSIVE CursorBefore(_, _, _)
CursorBefore(text, texts, k) ==
    IF k = 1 THEN 0
    ELSE LET c == CursorBefore(text, texts, k - 1)
             occ == {p \in c..Len(text) : OccursAt(text, texts[k - 1], p)}
         IN IF occ = {} THEN c ELSE SetMin(occ) + Len(texts[k - 1])

\* the begin offset the sequential search gives annotation k
SearchOffset(text, texts, k) ==
    LET c == CursorBefore(text, texts, k)
        occ == {p \in c..Len(text) : OccursAt(text, texts[k], p)}
    IN IF occ = {} THEN c ELSE SetMin(occ)

\* the overlap test of an annotation of length n at offset against the spans
Flag(n, offset, spans) ==
    \E i \in 1..Len(spans) : Overlaps(offset, offset + n, spans[i][1], spans[i][2])

\* the entity groups expected for a pool: per category the entities of that
\* category in detector order, flagged at their searched offset
ExpectedGroups(text, spans, ents) ==
    LET texts == [k \in 1..Len(ents) |-> ents[k].Text]
        ann == [k \in 1..Len(ents) |->
                  [Type |-> ents[k].Type,
                   item |-> [Text |-> ents[k].Text, Score |-> ents[k].Score,
                             Redacted |-> Flag(Len(ents[k].Text),
                                               SearchOffset(text, texts, k), spans)]]]
    IN [T \in {ents[k].Type : k \in 1..Len(ents)} |->
          LET ofType(x) == x.Type = T
              sel == SelectSeq(ann, ofType)
          IN [j \in 1..Len(sel) |-> sel[j].item]]

\* the entities of the forms pool and of every table pool are flagged by the
\* overlap test at their searched offset against the spans of their own pool
EntityFlagsOk ==
    /\ "forms" \in DOMAIN insights.entities =>
          insights.entities["forms"] =
              ExpectedGroups(FormsText(event.results.forms), provider.pii.forms,
                             provider.entities.forms)
    /\ \A i \in 0..(Len(event.results.tables) - 1) :
          TableKey(i) \in DOMAIN insights.entities =>
             insights.entities[TableKey(i)] =
                 ExpectedGroups(TableText(event.results.tables[i + 1]),
                                TablePii(provider.pii, i), provider.entities.table)

\* the key phrases the result lists for the document pool
HasPhrases == "full_document" \in DOMAIN insights.key_phrases

ListedPhrases == insights.key_phrases["full_document"].TopPhrases

\* every phrase the detector returned stands in the document text at its BeginOffset
PhrasesWhereReported ==
    \A k \in 1..Len(provider.phrases) :
        OccursAt(FullText(event.results), provider.phrases[k].Text,
                 provider.phrases[k].BeginOffset)

\* C12 as stated: every annotation, key phrases included, is flagged by the overlap
\* test at the offset the sequential cursor search gives it in its pool's text,
\* against the PII spans of that same pool.
C12_FlagsFromCursorSearch ==
    /\ EntityFlagsOk
    /\ (HasPhrases /\ PhrasesWhereReported) =>
          LET texts == [k \in 1..Len(provider.phrases) |-> provider.phrases[k].Text]
          IN \A k \in 1..Len(ListedPhrases) :
                ListedPhrases[k].Redacted =
                    Flag(Len(texts[k]), SearchOffset(FullText(event.results), texts, k),
                         provider.pii.document)

\* C12 (amended): every entity of the forms pool and of each table pool is flagged
\* by the overlap test at the offset the sequential cursor search gives it in its
\* pool's text; every key phrase of the document pool is flagged by the overlap
\* test at the begin offset the detector returned for it; both against the PII
\* spans detected for that same pool's text, never those of another pool.
C12_RedactedFlags ==
    /\ EntityFlagsOk
    /\ HasPhrases =>
          /\ Len(ListedPhrases) <= Len(provider.phrases)
          /\ \A k \in 1..Len(ListedPhrases) :
                /\ ListedPhrases[k].Phrase = provider.phrases[k].Text
                /\ ListedPhrases[k].Redacted =
                       Flag(Len(provider.phrases[k].Text), provider.phrases[k].BeginOffset,
                            provider.pii.document)

\* a returned result with a flagged key phrase, a forms pool with a flagged and an
\* unflagged entity of the same text, and two tables of the same text whose first
\* entity is flagged in table_1 only
C12_Witness ==
    /\ pc = "done"
    /\ HasPhrases
    /\ \E k \in 1..Len(ListedPhrases) : ListedPhrases[k].Redacted
    /\ "forms" \in DOMAIN insights.entities
    /\ "PERSON" \in DOMAIN insights.entities["forms"]
    /\ Len(insights.entities["forms"]["PERSON"]) = 2
    /\ insights.entities["forms"]["PERSON"][1].Redacted
    /\ ~insights.entities["forms"]["PERSON"][2].Redacted
    /\ "table_0" \in DOMAIN insights.entities
    /\ "table_1" \in DOMAIN insights.entities
    /\ TableText(event.results.tables[1]) = TableText(event.results.tables[2])
    /\ ~insights.entities["table_0"]["PERSON"][1].Redacted
    /\ insights.entities["table_1"]["PERSON"][1].Redacted

====
